---- MODULE Spec2Model ----
(***************************************************************************)
(* A model of beyondjs (src/src/main.py): the Node tree, serialize, the    *)
(* Router, the beyond decorator and the websocket dispatch loop, for one   *)
(* connection and for two connections served together.                     *)
(*                                                                         *)
(* Python values are modelled as records with a `kind` field (the type     *)
(* that isinstance tests); Python strings that the code slices or tests    *)
(* with startswith are sequences of characters; Python dicts are           *)
(* sequences of <<key, value>> pairs with distinct keys, in insertion      *)
(* order.                                                                  *)
(***************************************************************************)
EXTENDS Integers, Sequences, FiniteSets, TLC

VARIABLES
    stack,      \* Node-building specification: the Nodes under construction
    ops,        \* Node-building specification: number of Node operations done
    result,     \* Node-building specification: what serialize(stack[1]) gave
    routes,     \* Router._routes
    started,    \* web.run_app(app) has been reached
    conns       \* per connection: the websocket handler's state

vars == <<stack, ops, result, routes, started, conns>>

nodeVars == <<stack, ops, result>>
appVars == <<routes, started, conns>>

(***************************************************************************)
(* Python values                                                           *)
(***************************************************************************)
PyStr(v) == [kind |-> "str", value |-> v]
PyInt(v) == [kind |-> "int", value |-> v]
Callback(name, wrapped) == [kind |-> "function", name |-> name, beyond |-> wrapped]

StartsWith(s, prefix) ==
    /\ Len(s) >= Len(prefix)
    /\ SubSeq(s, 1, Len(prefix)) = prefix

\* s[n:]
SliceFrom(s, n) == SubSeq(s, n + 1, Len(s))

(***************************************************************************)
(* Python dict: insertion-ordered, one entry per key                       *)
(***************************************************************************)
EmptyDict == << >>

DictKeys(d) == {d[i][1] : i \in 1..Len(d)}

DictHas(d, k) == \E i \in 1..Len(d) : d[i][1] = k

DictGet(d, k) == d[CHOOSE i \in 1..Len(d) : d[i][1] = k][2]

\* d[k] = v : an existing key keeps its place and takes the new value
DictSet(d, k, v) ==
    IF DictHas(d, k)
    THEN [i \in 1..Len(d) |-> IF d[i][1] = k THEN <<k, v>> ELSE d[i]]
    ELSE Append(d, <<k, v>>)

\* d.update(pairs) and dict(pairs)
RECURSIVE DictUpdate(_, _)
DictUpdate(d, pairs) ==
    IF pairs = << >> THEN d
    ELSE DictUpdate(DictSet(d, Head(pairs)[1], Head(pairs)[2]), Tail(pairs))

DictOf(pairs) == DictUpdate(EmptyDict, pairs)

(***************************************************************************)
(* Attribute names used by the code and by the inputs                      *)
(***************************************************************************)
EventPrefix == <<"o", "n", "_">>
ClassUpper == <<"C", "l", "a", "s", "s">>
ClassLower == <<"c", "l", "a", "s", "s">>
ForUpper == <<"F", "o", "r">>
ForLower == <<"f", "o", "r">>
Name_on_click == <<"o", "n", "_", "c", "l", "i", "c", "k">>
Name_on_submit == <<"o", "n", "_", "s", "u", "b", "m", "i", "t">>
Name_onsubmit == <<"o", "n", "s", "u", "b", "m", "i", "t">>
Name_id == <<"i", "d">>

(***************************************************************************)
(* Node                                                                    *)
(***************************************************************************)
PrimitiveKinds == {"str", "float", "int"}

\* Node.__init__
Node(tag) == [kind |-> "Node", tag |-> tag, children |-> << >>, attributes |-> EmptyDict]

\* Node.__call__ with setdefault in place of update: a key already set
\* keeps its value
NodeCall_SetDefault(node, kwargs) ==
    [node EXCEPT !.attributes =
        DictUpdate(@, SelectSeq(kwargs, LAMBDA pair : ~DictHas(node.attributes, pair[1])))]

\* Node.__call__(**kwargs)
NodeCall(node, kwargs) == [node EXCEPT !.attributes = DictUpdate(@, kwargs)]

\* Node.append(node)
NodeAppend(self, node) == [self EXCEPT !.children = Append(@, node)]

\* Node.extend(nodes)
RECURSIVE NodeExtend(_, _)
NodeExtend(self, nodes) ==
    IF nodes = << >> THEN self
    ELSE NodeExtend(NodeAppend(self, Head(nodes)), Tail(nodes))

\* Node.__getitem__(nodes): `nodes` is a primitive, a Node, or a list
\* (kind "list", its elements in `items`)
NodeGetItem(self, nodes) ==
    IF nodes.kind \in PrimitiveKinds THEN NodeAppend(self, nodes)
    ELSE IF nodes.kind \in {"list", "tuple"} THEN NodeExtend(self, nodes.items)
    ELSE NodeAppend(self, nodes)

\* PythonHTML.__getattr__
PythonHTML(attribute_name) == Node(attribute_name)

(***************************************************************************)
(* serialize                                                               *)
(***************************************************************************)
\* generate_unique_key without the membership test
generate_unique_key_NoCheck(dictionary, uuid) == [raised |-> FALSE, key |-> uuid]

\* generate_unique_key(dictionary); `uuid` is what uuid4().hex returned
generate_unique_key(dictionary, uuid) ==
    IF ~DictHas(dictionary, uuid)
    THEN [raised |-> FALSE, key |-> uuid]
    ELSE [raised |-> TRUE, key |-> uuid]

\* to_html_attributes without the branch for 'For'
RECURSIVE to_html_attributes_KeepFor(_)
to_html_attributes_KeepFor(attributes) ==
    IF attributes = << >> THEN << >>
    ELSE LET key == Head(attributes)[1]
             value == Head(attributes)[2]
             rest == to_html_attributes_KeepFor(Tail(attributes))
         IN  IF StartsWith(key, EventPrefix) THEN rest
             ELSE IF key = ClassUpper THEN << <<ClassLower, value>> >> \o rest
             ELSE << <<key, value>> >> \o rest

\* serialize.to_html_attributes: the pairs the generator yields, in order
RECURSIVE to_html_attributes(_)
to_html_attributes(attributes) ==
    IF attributes = << >> THEN << >>
    ELSE LET key == Head(attributes)[1]
             value == Head(attributes)[2]
             rest == to_html_attributes(Tail(attributes))
         IN  IF StartsWith(key, EventPrefix) THEN rest
             ELSE IF key = ClassUpper THEN << <<ClassLower, value>> >> \o rest
             ELSE IF key = ForUpper THEN << <<ForLower, value>> >> \o rest
             ELSE << <<key, value>> >> \o rest

\* serialize.to_html_events: the pairs the generator yields, in order
RECURSIVE to_html_events(_)
to_html_events(attributes) ==
    IF attributes = << >> THEN << >>
    ELSE LET key == Head(attributes)[1]
             value == Head(attributes)[2]
             rest == to_html_events(Tail(attributes))
         IN  IF StartsWith(key, EventPrefix)
             THEN << <<SliceFrom(key, 3), value>> >> \o rest
             ELSE rest

\* the for loop of to_dict with a binding left out when its key collides
RECURSIVE to_dict_events_Skip(_, _, _, _)
to_dict_events_Skip(pairs, on, events, uuids) ==
    IF pairs = << >>
    THEN [raised |-> FALSE, on |-> on, events |-> events, uuids |-> uuids]
    ELSE LET got == generate_unique_key(events, Head(uuids))
         IN  IF got.raised
             THEN to_dict_events_Skip(Tail(pairs), on, events, Tail(uuids))
             ELSE to_dict_events_Skip(Tail(pairs),
                                      DictSet(on, Head(pairs)[1], got.key),
                                      DictSet(events, got.key, Head(pairs)[2]),
                                      Tail(uuids))

\* the for loop of to_dict (lines 118-121): `uuids` are the values uuid4
\* returns from here on
RECURSIVE to_dict_events(_, _, _, _)
to_dict_events(pairs, on, events, uuids) ==
    IF pairs = << >>
    THEN [raised |-> FALSE, on |-> on, events |-> events, uuids |-> uuids]
    ELSE LET got == generate_unique_key(events, Head(uuids))
         IN  IF got.raised
             THEN [raised |-> TRUE, on |-> on, events |-> events, uuids |-> Tail(uuids)]
             ELSE to_dict_events(Tail(pairs),
                                 DictSet(on, Head(pairs)[1], got.key),
                                 DictSet(events, got.key, Head(pairs)[2]),
                                 Tail(uuids))

\* serialize.to_dict and its list comprehension over the children (line 124)
RECURSIVE to_dict(_, _, _)
RECURSIVE to_dict_children(_, _, _)
to_dict(node, events, uuids) ==
    IF node.kind \in PrimitiveKinds
    THEN [raised |-> FALSE, out |-> node, events |-> events, uuids |-> uuids]
    ELSE LET attributes == DictOf(to_html_attributes(node.attributes))
             bound == to_dict_events(to_html_events(node.attributes), EmptyDict, events, uuids)
             kids == to_dict_children(node.children, bound.events, bound.uuids)
             out == IF bound.on # EmptyDict
                    THEN [tag |-> node.tag, attributes |-> attributes,
                          on |-> bound.on, children |-> kids.out]
                    ELSE [tag |-> node.tag, attributes |-> attributes,
                          children |-> kids.out]
         IN  IF bound.raised
             THEN [raised |-> TRUE, out |-> << >>, events |-> bound.events, uuids |-> bound.uuids]
             ELSE IF kids.raised
             THEN [raised |-> TRUE, out |-> << >>, events |-> kids.events, uuids |-> kids.uuids]
             ELSE [raised |-> FALSE, out |-> out, events |-> kids.events, uuids |-> kids.uuids]

to_dict_children(children, events, uuids) ==
    IF children = << >>
    THEN [raised |-> FALSE, out |-> << >>, events |-> events, uuids |-> uuids]
    ELSE LET first == to_dict(Head(children), events, uuids)
             rest == to_dict_children(Tail(children), first.events, first.uuids)
         IN  IF first.raised
             THEN [raised |-> TRUE, out |-> << >>, events |-> first.events, uuids |-> first.uuids]
             ELSE IF rest.raised
             THEN [raised |-> TRUE, out |-> << >>, events |-> rest.events, uuids |-> rest.uuids]
             ELSE [raised |-> FALSE, out |-> <<first.out>> \o rest.out,
                   events |-> rest.events, uuids |-> rest.uuids]

\* serialize(node): raised (BeyondException), or the pair (html, events)
serialize(node, uuids) ==
    LET r == to_dict(node, EmptyDict, uuids)
    IN  IF r.raised
        THEN [raised |-> TRUE, html |-> << >>, events |-> EmptyDict]
        ELSE [raised |-> FALSE, html |-> r.out, events |-> r.events]

\* number of uuid4 calls a complete serialize of `node` makes
RECURSIVE CountEvents(_)
RECURSIVE CountEventsAll(_)
CountEvents(node) ==
    IF node.kind \in PrimitiveKinds THEN 0
    ELSE Len(to_html_events(node.attributes)) + CountEventsAll(node.children)

CountEventsAll(children) ==
    IF children = << >> THEN 0
    ELSE CountEvents(Head(children)) + CountEventsAll(Tail(children))

(***************************************************************************)
(* Node-building specification: Nodes are built with the Node methods from *)
(* small pools of tags, attributes and children, then serialized.          *)
(***************************************************************************)
MaxOps == 5
MaxDepth == 2

\* the values uuid4().hex can return
Keys == {"a1", "b2"}

Tags == {"div", "button"}

Primitives == {PyStr("beyondjs"), PyInt("1")}

Callbacks == {Callback("increment", TRUE), Callback("log", FALSE)}

\* keyword arguments of one Node.__call__
KwargsPool ==
    {<< <<Name_on_click, cb>> >> : cb \in Callbacks}
    \cup {<< <<Name_on_submit, Callback("increment", TRUE)>> >>}
    \cup {<< <<EventPrefix, Callback("log", FALSE)>> >>}
    \cup {<< <<Name_onsubmit, PyStr("return false;")>> >>}
    \cup {<< <<ClassUpper, PyStr("chatbot")>> >>, << <<ClassLower, PyStr("reply")>> >>}
    \cup {<< <<ForUpper, PyStr("shell")>> >>, << <<Name_id, PyStr("shell")>> >>}

Lists == {[kind |-> "list", items |-> <<PyStr("beyondjs"), PyInt("1")>>],
          [kind |-> "tuple", items |-> << >>]}

NotRun == [done |-> FALSE, raised |-> FALSE, html |-> << >>, events |-> EmptyDict]

Top == stack[Len(stack)]

SetTop(node) == [stack EXCEPT ![Len(stack)] = node]

Building == ~result.done /\ ops < MaxOps

\* h.<tag>
DoNode(tag) ==
    /\ Building
    /\ Len(stack) < MaxDepth
    /\ stack' = Append(stack, PythonHTML(tag))
    /\ ops' = ops + 1
    /\ UNCHANGED <<result, appVars>>

\* node(**kwargs)
DoCall(kwargs) ==
    /\ Building
    /\ stack # << >>
    /\ stack' = SetTop(NodeCall(Top, kwargs))
    /\ ops' = ops + 1
    /\ UNCHANGED <<result, appVars>>

\* node.append(primitive)
DoAppend(child) ==
    /\ Building
    /\ stack # << >>
    /\ stack' = SetTop(NodeAppend(Top, child))
    /\ ops' = ops + 1
    /\ UNCHANGED <<result, appVars>>

\* parent.append(node), the Node built last becoming a child of the one before
DoAppendNode ==
    /\ Building
    /\ Len(stack) >= 2
    /\ stack' = [SubSeq(stack, 1, Len(stack) - 1)
                    EXCEPT ![Len(stack) - 1] = NodeAppend(@, Top)]
    /\ ops' = ops + 1
    /\ UNCHANGED <<result, appVars>>

\* node.extend(list)
DoExtend(nodes) ==
    /\ Building
    /\ stack # << >>
    /\ stack' = SetTop(NodeExtend(Top, nodes.items))
    /\ ops' = ops + 1
    /\ UNCHANGED <<result, appVars>>

\* node[nodes] with a primitive or a list
DoGetItem(nodes) ==
    /\ Building
    /\ stack # << >>
    /\ stack' = SetTop(NodeGetItem(Top, nodes))
    /\ ops' = ops + 1
    /\ UNCHANGED <<result, appVars>>

\* parent[node]
DoGetItemNode ==
    /\ Building
    /\ Len(stack) >= 2
    /\ stack' = [SubSeq(stack, 1, Len(stack) - 1)
                    EXCEPT ![Len(stack) - 1] = NodeGetItem(@, Top)]
    /\ ops' = ops + 1
    /\ UNCHANGED <<result, appVars>>

\* serialize(node) of the finished Node
DoSerialize ==
    /\ ~result.done
    /\ Len(stack) = 1
    /\ \E uuids \in [1..CountEvents(stack[1]) -> Keys] :
           result' = [done |-> TRUE] @@ serialize(stack[1], uuids)
    /\ UNCHANGED <<stack, ops, appVars>>

InitNode ==
    /\ stack = << >>
    /\ ops = 0
    /\ result = NotRun
    /\ routes = << >>
    /\ started = FALSE
    /\ conns = << >>

NextNode ==
    \/ \E tag \in Tags : DoNode(tag)
    \/ \E kwargs \in KwargsPool : DoCall(kwargs)
    \/ \E child \in Primitives : DoAppend(child)
    \/ DoAppendNode
    \/ \E nodes \in Lists : DoExtend(nodes)
    \/ \E nodes \in Primitives \cup Lists : DoGetItem(nodes)
    \/ DoGetItemNode
    \/ DoSerialize

SpecNode == InitNode /\ [][NextNode]_vars

(***************************************************************************)
(* PythonHTML.form and PythonHTML.input                                    *)
(***************************************************************************)
Name_type == <<"t", "y", "p", "e">>
Name_on_change == <<"o", "n", "_", "c", "h", "a", "n", "g", "e">>

\* kwargs.get(key)
KwargsGet(kwargs, key) == IF DictHas(kwargs, key) THEN DictGet(kwargs, key) ELSE PyStr("")

\* PythonHTML.form(**kwargs)
PythonHTML_form(kwargs) ==
    NodeCall(NodeCall(Node("form"), << <<Name_onsubmit, PyStr("return false;")>> >>), kwargs)

\* PythonHTML.input(**kwargs); the uuid4 suffix of a text input's tag is left out
PythonHTML_input(kwargs) ==
    IF KwargsGet(kwargs, Name_type) = PyStr("text")
    THEN NodeCall(Node("input#"), kwargs)
    ELSE NodeCall(Node("input"), kwargs)

(***************************************************************************)
(* The application layer: request state, init handlers, event handlers and *)
(* render handlers registered with the Router                              *)
(***************************************************************************)
\* request.model / request.count before any init handler ran
NewRequest ==
    [has_model |-> FALSE, command |-> "", conversation |-> << >>,
     has_count |-> FALSE, count |-> 0]

Returned(request) == [raised |-> FALSE, exc |-> "", request |-> request]
Raised(exc, request) == [raised |-> TRUE, exc |-> exc, request |-> request]

\* index_init
index_init(request) ==
    [request EXCEPT !.has_model = TRUE, !.command = "", !.conversation = << >>]

\* counter_init
counter_init(request) == [request EXCEPT !.has_count = TRUE, !.count = 0]

\* chatbox_inputed, the function the decorator wraps
chatbox_inputed(request, payload) ==
    IF ~request.has_model THEN Raised("AttributeError", request)
    ELSE IF ~DictHas(payload, "target.value") THEN Raised("KeyError", request)
    ELSE Returned([request EXCEPT !.command = DictGet(payload, "target.value")])

\* on_submit, the function the decorator wraps
on_submit(request, payload) ==
    IF ~request.has_model THEN Raised("AttributeError", request)
    ELSE IF request.command # ""
    THEN Returned([request EXCEPT !.command = "",
                                  !.conversation = Append(@, request.command)])
    ELSE Returned(request)

\* increment
increment(request, payload) ==
    IF ~request.has_count THEN Raised("AttributeError", request)
    ELSE Returned([request EXCEPT !.count = @ + 1])

\* the callables bound to on_ attributes: `beyond` says whether the function
\* went through the decorator
Cb_on_submit == Callback("on_submit", TRUE)
Cb_chatbox_inputed == Callback("chatbox_inputed", TRUE)
Cb_increment == Callback("increment", TRUE)
Cb_increment_plain == Callback("increment", FALSE)
Cb_chatbox_inputed_plain == Callback("chatbox_inputed", FALSE)

\* await callable(event) for the function named `name`
CallHandler(name, request, payload) ==
    CASE name = "on_submit" -> on_submit(request, payload)
      [] name = "chatbox_inputed" -> chatbox_inputed(request, payload)
      [] name = "increment" -> increment(request, payload)

\* 'echo: ' + reply
EchoText(command) == IF command = "hi" THEN "echo: hi" ELSE "echo: "

\* the loop of render_chatbot over model['conversation']
RECURSIVE render_conversation(_, _)
render_conversation(shell, conversation) ==
    IF conversation = << >> THEN shell
    ELSE LET command == Head(conversation)
             withCommand == NodeAppend(shell,
                 NodeGetItem(NodeCall(PythonHTML("p"), << >>), PyStr(command)))
             withReply == NodeAppend(withCommand,
                 NodeGetItem(NodeCall(PythonHTML("p"),
                                      << <<ClassUpper, PyStr("reply echo")>> >>),
                             PyStr(EchoText(command))))
         IN  render_conversation(withReply, Tail(conversation))

\* render_chatbot(model)
render_chatbot(request) ==
    LET shell0 == NodeCall(PythonHTML("div"),
                           << <<Name_id, PyStr("shell")>>, <<ClassUpper, PyStr("chatbot")>> >>)
        shell1 == NodeAppend(shell0,
                             NodeGetItem(NodeCall(PythonHTML("h1"), << >>), PyStr("beyondjs")))
        shell2 == render_conversation(shell1, request.conversation)
        chatbox == NodeCall(PythonHTML("div"), << <<Name_id, PyStr("chatbox")>> >>)
        form0 == PythonHTML_form(<< <<Name_on_submit, Cb_on_submit>> >>)
        form1 == NodeAppend(form0,
                     PythonHTML_input(<< <<Name_type, PyStr("text")>>,
                                         <<Name_on_change, Cb_chatbox_inputed>> >>))
        form2 == NodeAppend(form1, PythonHTML_input(<< <<Name_type, PyStr("submit")>> >>))
    IN  NodeAppend(shell2, NodeAppend(chatbox, form2))

NoHtml == PyStr("")

\* index_render(event)
index_render(request) ==
    IF ~request.has_model
    THEN [raised |-> TRUE, exc |-> "AttributeError", html |-> NoHtml]
    ELSE [raised |-> FALSE, exc |-> "", html |-> render_chatbot(request)]

\* 'The count is %s' % count
CountText(count) ==
    <<"The count is 0", "The count is 1", "The count is 2", "The count is 3",
      "The count is 4", "The count is 5", "The count is 6", "The count is 7",
      "The count is 8", "The count is 9">>[count + 1]

\* make_shell() and the subtitle of counter_render
counter_shell(request) ==
    NodeAppend(PythonHTML("div"),
               NodeGetItem(NodeCall(PythonHTML("h2"), << >>),
                           PyStr(CountText(request.count))))

\* counter_render(event)
counter_render(request) ==
    IF ~request.has_count
    THEN [raised |-> TRUE, exc |-> "AttributeError", html |-> NoHtml]
    ELSE LET button == NodeGetItem(NodeCall(PythonHTML("button"),
                                            << <<Name_on_click, Cb_increment>> >>),
                                   PyStr("increment the count"))
         IN  [raised |-> FALSE, exc |-> "", html |-> NodeAppend(counter_shell(request), button)]

\* counter_render with the button bound to the undecorated function
quiet_render(request) ==
    IF ~request.has_count
    THEN [raised |-> TRUE, exc |-> "AttributeError", html |-> NoHtml]
    ELSE LET button == NodeGetItem(NodeCall(PythonHTML("button"),
                                            << <<Name_on_click, Cb_increment_plain>> >>),
                                   PyStr("increment the count"))
         IN  [raised |-> FALSE, exc |-> "", html |-> NodeAppend(counter_shell(request), button)]

\* the chatbox of render_chatbot alone, with the text input bound to the
\* undecorated function
draft_render(request) ==
    IF ~request.has_model
    THEN [raised |-> TRUE, exc |-> "AttributeError", html |-> NoHtml]
    ELSE LET chatbox == NodeCall(PythonHTML("div"), << <<Name_id, PyStr("chatbox")>> >>)
             form == NodeAppend(PythonHTML_form(<< >>),
                         PythonHTML_input(<< <<Name_type, PyStr("text")>>,
                                             <<Name_on_change, Cb_chatbox_inputed_plain>> >>))
         IN  [raised |-> FALSE, exc |-> "", html |-> NodeAppend(chatbox, form)]

\* await route.init(*args, event)
CallInit(name, request) ==
    CASE name = "index_init" -> index_init(request)
      [] name = "counter_init" -> counter_init(request)

\* route.render(*args, event)
CallRender(name, request) ==
    CASE name = "index_render" -> index_render(request)
      [] name = "counter_render" -> counter_render(request)
      [] name = "quiet_render" -> quiet_render(request)
      [] name = "draft_render" -> draft_render(request)

(***************************************************************************)
(* Router                                                                  *)
(***************************************************************************)
\* re.compile(pattern), for a literal with an optional leading ^ and an
\* optional trailing $
Compile(pattern) ==
    LET body == IF pattern # << >> /\ Head(pattern) = "^" THEN Tail(pattern) ELSE pattern
        dollar == body # << >> /\ body[Len(body)] = "$"
    IN  [literal |-> IF dollar THEN SubSeq(body, 1, Len(body) - 1) ELSE body,
         end |-> dollar]

\* regex.match(path): the pattern must match at the start of path
Match(regex, path) ==
    /\ StartsWith(path, regex.literal)
    /\ regex.end => Len(path) = Len(regex.literal)

\* Route(regex, init, render)
Route(regex, init, render) == [regex |-> regex, init |-> init, render |-> render]

\* Router.add_route
add_route(rs, pattern, init, render) == Append(rs, Route(Compile(pattern), init, render))

\* h.h1()['No route found']
NotFound == NodeGetItem(NodeCall(PythonHTML("h1"), << >>), PyStr("No route found"))

\* one handler invocation, as recorded in a connection's `calls`
Invocation(fn, route) == [fn |-> fn, route |-> route]

\* Router.__call__ calling init whatever the event's type
RECURSIVE RouterLoop_AlwaysInit(_, _, _, _)
RouterLoop_AlwaysInit(rs, i, event, request) ==
    IF i > Len(rs)
    THEN [raised |-> FALSE, exc |-> "", html |-> NotFound,
          request |-> request, calls |-> << >>]
    ELSE IF Match(rs[i].regex, event.path)
    THEN LET ready == CallInit(rs[i].init, request)
             rendered == CallRender(rs[i].render, ready)
         IN  [raised |-> rendered.raised, exc |-> rendered.exc, html |-> rendered.html,
              request |-> ready,
              calls |-> <<Invocation(rs[i].init, i), Invocation(rs[i].render, i)>>]
    ELSE RouterLoop_AlwaysInit(rs, i + 1, event, request)

\* Router.__call__ going on after a match, every matching route rendering
\* and the last one's html returned
RECURSIVE RouterLoop_Fallthrough(_, _, _, _)
RouterLoop_Fallthrough(rs, i, event, request) ==
    IF i > Len(rs)
    THEN [raised |-> FALSE, exc |-> "", html |-> NotFound,
          request |-> request, calls |-> << >>]
    ELSE IF Match(rs[i].regex, event.path)
    THEN LET isInit == event.type = "init"
             ready == IF isInit THEN CallInit(rs[i].init, request) ELSE request
             initCalls == IF isInit THEN <<Invocation(rs[i].init, i)>> ELSE << >>
             rendered == CallRender(rs[i].render, ready)
             mine == initCalls \o <<Invocation(rs[i].render, i)>>
             rest == RouterLoop_Fallthrough(rs, i + 1, event, ready)
         IN  IF rendered.raised \/ rest.calls = << >>
             THEN [raised |-> rendered.raised, exc |-> rendered.exc,
                   html |-> rendered.html, request |-> ready, calls |-> mine]
             ELSE [rest EXCEPT !.calls = mine \o @]
    ELSE RouterLoop_Fallthrough(rs, i + 1, event, request)

\* Router.__call__ raising when no route matches
RECURSIVE RouterLoop_RaiseOnMiss(_, _, _, _)
RouterLoop_RaiseOnMiss(rs, i, event, request) ==
    IF i > Len(rs)
    THEN [raised |-> TRUE, exc |-> "LookupError", html |-> NoHtml,
          request |-> request, calls |-> << >>]
    ELSE IF Match(rs[i].regex, event.path)
    THEN LET isInit == event.type = "init"
             ready == IF isInit THEN CallInit(rs[i].init, request) ELSE request
             initCalls == IF isInit THEN <<Invocation(rs[i].init, i)>> ELSE << >>
             rendered == CallRender(rs[i].render, ready)
         IN  [raised |-> rendered.raised, exc |-> rendered.exc, html |-> rendered.html,
              request |-> ready,
              calls |-> initCalls \o <<Invocation(rs[i].render, i)>>]
    ELSE RouterLoop_RaiseOnMiss(rs, i + 1, event, request)

\* the for loop of Router.__call__ from route i on
RECURSIVE RouterLoop(_, _, _, _)
RouterLoop(rs, i, event, request) ==
    IF i > Len(rs)
    THEN [raised |-> FALSE, exc |-> "", html |-> NotFound,
          request |-> request, calls |-> << >>]
    ELSE IF Match(rs[i].regex, event.path)
    THEN LET isInit == event.type = "init"
             ready == IF isInit THEN CallInit(rs[i].init, request) ELSE request
             initCalls == IF isInit THEN <<Invocation(rs[i].init, i)>> ELSE << >>
             rendered == CallRender(rs[i].render, ready)
         IN  [raised |-> rendered.raised, exc |-> rendered.exc, html |-> rendered.html,
              request |-> ready,
              calls |-> initCalls \o <<Invocation(rs[i].render, i)>>]
    ELSE RouterLoop(rs, i + 1, event, request)

\* Router.__call__(event)
RouterCall(rs, event, request) == RouterLoop(rs, 1, event, request)

(***************************************************************************)
(* The websocket handler: one dispatch loop per connection                 *)
(***************************************************************************)
MaxMsgs == 3
MaxRoutes == 2

Conns == {"c1"}

Path_root == <<"/">>
Path_counter == <<"/", "c", "o", "u", "n", "t", "e", "r">>
Path_missing == <<"/", "m", "i", "s", "s", "i", "n", "g">>
Paths == {Path_root, Path_counter, Path_missing}

Pattern_root == <<"^", "/", "$">>
Pattern_counter == <<"^", "/", "c", "o", "u", "n", "t", "e", "r", "$">>
Pattern_any == <<"^", "/">>

\* the registrations router.add_route(pattern, init, render) can make
Registrations ==
    {<<Pattern_root, "index_init", "index_render">>,
     <<Pattern_counter, "counter_init", "counter_render">>,
     <<Pattern_any, "counter_init", "quiet_render">>}

\* the `key` field of a dom-event message: a value uuid4 can return, or not
ClientKeys == Keys \cup {"ff"}

\* the `event` field of a dom-event message
Payloads == {DictOf(<< <<"target.value", "hi">> >>), EmptyDict}

\* what is kept of a frame: its type and, of a TEXT frame, its path and key
NoMessage == [type |-> "", path |-> << >>, key |-> ""]

\* the state of a connection when its handler reaches `async for`
NewConn ==
    [state |-> "open",          \* "open", "returned" (line 259) or "raised"
     exc |-> "",                \* the exception that left the handler
     has_events |-> FALSE,      \* websocket.events has been assigned
     events |-> EmptyDict,      \* websocket.events
     request |-> NewRequest,    \* the request's application state
     sent |-> << >>,            \* the html of every send_str, in order
     calls |-> << >>,           \* every application function invoked, in order
     received |-> 0,            \* number of frames the loop has taken
     last |-> NoMessage]        \* the frame taken last

Raise(conn, exc) == [conn EXCEPT !.state = "raised", !.exc = exc]

\* Event(type, request, websocket, path, payload)
Event(type, path, payload) == [type |-> type, path |-> path, payload |-> payload]

\* the render, with the new events merged into the old table
RenderAndSend_Merge(rs, conn, event, uuids) ==
    LET r == RouterCall(rs, event, conn.request)
        called == [conn EXCEPT !.request = r.request, !.calls = @ \o r.calls]
        s == serialize(r.html, uuids)
    IN  IF r.raised THEN Raise(called, r.exc)
        ELSE IF s.raised THEN Raise(called, "BeyondException")
        ELSE [called EXCEPT !.has_events = TRUE, !.events = DictUpdate(@, s.events),
                            !.sent = Append(@, s.html)]

\* the render, with the assignment of websocket.events left out
RenderAndSend_KeepTable(rs, conn, event, uuids) ==
    LET r == RouterCall(rs, event, conn.request)
        called == [conn EXCEPT !.request = r.request, !.calls = @ \o r.calls]
        s == serialize(r.html, uuids)
    IN  IF r.raised THEN Raise(called, r.exc)
        ELSE IF s.raised THEN Raise(called, "BeyondException")
        ELSE [called EXCEPT !.has_events = TRUE, !.sent = Append(@, s.html)]

\* the render, with the update held back instead of sent
RenderAndSend_Defer(rs, conn, event, uuids) ==
    LET r == RouterCall(rs, event, conn.request)
        called == [conn EXCEPT !.request = r.request, !.calls = @ \o r.calls]
        s == serialize(r.html, uuids)
    IN  IF r.raised THEN Raise(called, r.exc)
        ELSE IF s.raised THEN Raise(called, "BeyondException")
        ELSE [called EXCEPT !.has_events = TRUE, !.events = s.events]

\* html = await request.app.render(event); html, events = serialize(html);
\* websocket.events = events; await websocket.send_str(dumps(dict(html=html)))
\* (lines 226-233, 180-189 and 243-250)
RenderAndSend(rs, conn, event, uuids) ==
    LET r == RouterCall(rs, event, conn.request)
        called == [conn EXCEPT !.request = r.request, !.calls = @ \o r.calls]
        s == serialize(r.html, uuids)
    IN  IF r.raised THEN Raise(called, r.exc)
        ELSE IF s.raised THEN Raise(called, "BeyondException")
        ELSE [called EXCEPT !.has_events = TRUE, !.events = s.events,
                            !.sent = Append(@, s.html)]

\* the number of uuid4 calls RenderAndSend makes at most
Draws(rs, conn, event) ==
    LET r == RouterCall(rs, event, conn.request)
    IN  IF conn.state # "open" \/ r.raised THEN 0 ELSE CountEvents(r.html)

\* the wrapper with the handler's exception caught and passed over
beyond_wrapper_Swallow(rs, conn, callback, event, uuids) ==
    LET h == CallHandler(callback.name, conn.request, event.payload)
        ran == [conn EXCEPT !.request = h.request,
                            !.calls = Append(@, Invocation(callback.name, 0))]
    IN  IF h.raised THEN ran
        ELSE RenderAndSend(rs, ran, event, uuids)

\* beyond(callable).wrapper(event)
beyond_wrapper(rs, conn, callback, event, uuids) ==
    LET h == CallHandler(callback.name, conn.request, event.payload)
        ran == [conn EXCEPT !.request = h.request,
                            !.calls = Append(@, Invocation(callback.name, 0))]
    IN  IF h.raised THEN Raise(ran, h.exc)
        ELSE RenderAndSend(rs, ran, event, uuids)

\* await callback(event), for a decorated or an undecorated function
AwaitCallback(rs, conn, callback, event, uuids) ==
    IF callback.beyond
    THEN beyond_wrapper(rs, conn, callback, event, uuids)
    ELSE LET h == CallHandler(callback.name, conn.request, event.payload)
             ran == [conn EXCEPT !.request = h.request,
                                 !.calls = Append(@, Invocation(callback.name, 0))]
         IN  IF h.raised THEN Raise(ran, h.exc) ELSE ran

\* the request state and the event as the wrapper's render sees them
AfterHandler(conn, callback, event) ==
    LET h == CallHandler(callback.name, conn.request, event.payload)
    IN  IF h.raised THEN Raise(conn, h.exc) ELSE [conn EXCEPT !.request = h.request]

\* the lookup with websocket.events.get(key), a miss passed over
DomEventLookup_Get(rs, conn, key, event, uuids) ==
    IF ~conn.has_events THEN Raise(conn, "AttributeError")
    ELSE IF ~DictHas(conn.events, key) THEN conn
    ELSE AwaitCallback(rs, conn, DictGet(conn.events, key), event, uuids)

\* lines 236-241: the lookup of the key and the call of the callback
DomEventLookup(rs, conn, key, event, uuids) ==
    IF ~conn.has_events THEN Raise(conn, "AttributeError")
    ELSE IF ~DictHas(conn.events, key) THEN Raise(conn, "KeyError")
    ELSE AwaitCallback(rs, conn, DictGet(conn.events, key), event, uuids)

\* lines 242-250: the render after the callback
DomEventRender(rs, conn, event, uuids) ==
    IF conn.state # "open" THEN conn ELSE RenderAndSend(rs, conn, event, uuids)

\* the uuid4 calls of the callback's own render
CallbackDraws(rs, conn, key, event) ==
    IF conn.has_events /\ DictHas(conn.events, key) /\ DictGet(conn.events, key).beyond
    THEN Draws(rs, AfterHandler(conn, DictGet(conn.events, key), event), event)
    ELSE 0

Take(conn, message) == [conn EXCEPT !.received = @ + 1, !.last = message]

RECURSIVE TotalReceived(_)
TotalReceived(S) ==
    IF S = {} THEN 0
    ELSE LET c == CHOOSE x \in S : TRUE
         IN  conns[c].received + TotalReceived(S \ {c})

Receiving(c) ==
    /\ started
    /\ conns[c].state = "open"
    /\ TotalReceived(DOMAIN conns) < MaxMsgs

\* router.add_route(...), before the application runs; no registration is
\* made twice
AddRoute(registration) ==
    /\ ~started
    /\ Len(routes) < MaxRoutes
    /\ \A i \in 1..Len(routes) :
          routes[i] # Route(Compile(registration[1]), registration[2], registration[3])
    /\ routes' = add_route(routes, registration[1], registration[2], registration[3])
    /\ UNCHANGED <<started, conns, nodeVars>>

\* web.run_app(app)
RunApp ==
    /\ ~started
    /\ started' = TRUE
    /\ UNCHANGED <<routes, conns, nodeVars>>

\* an init whose render assigns the table of every connection, as if it
\* were kept on the application
RecvInit_SharedTable(c, path) ==
    /\ Receiving(c)
    /\ LET message == [NoMessage EXCEPT !.type = "init", !.path = path]
           event == Event("init", path, EmptyDict)
           conn == Take(conns[c], message)
       IN  \E uuids \in [1..Draws(routes, conn, event) -> Keys] :
               conns' = [d \in DOMAIN conns |->
                   IF d = c THEN RenderAndSend(routes, conn, event, uuids)
                   ELSE [conns[d] EXCEPT
                            !.has_events = RenderAndSend(routes, conn, event, uuids).has_events,
                            !.events = RenderAndSend(routes, conn, event, uuids).events]]
    /\ UNCHANGED <<routes, started, nodeVars>>

\* a TEXT frame {"type": "init", "path": path}
RecvInit(c, path) ==
    /\ Receiving(c)
    /\ LET message == [NoMessage EXCEPT !.type = "init", !.path = path]
           event == Event("init", path, EmptyDict)
           conn == Take(conns[c], message)
       IN  \E uuids \in [1..Draws(routes, conn, event) -> Keys] :
               conns' = [conns EXCEPT ![c] = RenderAndSend(routes, conn, event, uuids)]
    /\ UNCHANGED <<routes, started, nodeVars>>

\* a TEXT frame {"type": "dom-event", "path": path, "key": key, "event": payload}
RecvDomEvent(c, path, key, payload) ==
    /\ Receiving(c)
    /\ LET message == [type |-> "dom-event", path |-> path, key |-> key]
           event == Event("dom-event", path, payload)
           conn == Take(conns[c], message)
       IN  \E uuids1 \in [1..CallbackDraws(routes, conn, key, event) -> Keys] :
             \E uuids2 \in [1..Draws(routes,
                                     DomEventLookup(routes, conn, key, event, uuids1),
                                     event) -> Keys] :
               conns' = [conns EXCEPT ![c] =
                   DomEventRender(routes,
                                  DomEventLookup(routes, conn, key, event, uuids1),
                                  event, uuids2)]
    /\ UNCHANGED <<routes, started, nodeVars>>

\* a TEXT frame with any other "type", passed over
RecvOtherType_Ignore(c) ==
    /\ Receiving(c)
    /\ conns' = [conns EXCEPT ![c] = Take(@, [NoMessage EXCEPT !.type = "other"])]
    /\ UNCHANGED <<routes, started, nodeVars>>

\* a TEXT frame with any other "type" (lines 251-253): msg['type'] is
\* evaluated on the WSMessage tuple
RecvOtherType(c) ==
    /\ Receiving(c)
    /\ conns' = [conns EXCEPT ![c] =
                    Raise(Take(@, [NoMessage EXCEPT !.type = "other"]), "TypeError")]
    /\ UNCHANGED <<routes, started, nodeVars>>

\* a frame of type ERROR (lines 213-216): the exception is printed.  The
\* transport yields an ERROR frame only once it has closed the connection,
\* so the iteration of line 211 then ends and the handler returns (lines
\* 257-259)
RecvError(c) ==
    /\ Receiving(c)
    /\ conns' = [conns EXCEPT ![c] =
                    [Take(@, [NoMessage EXCEPT !.type = "ERROR"]) EXCEPT !.state = "returned"]]
    /\ UNCHANGED <<routes, started, nodeVars>>

\* a frame of type CLOSE with the break of line 218 left out
RecvClose_NoBreak(c) ==
    /\ Receiving(c)
    /\ conns' = [conns EXCEPT ![c] = Take(@, [NoMessage EXCEPT !.type = "CLOSE"])]
    /\ UNCHANGED <<routes, started, nodeVars>>

\* a frame of type CLOSE (lines 217-218, 257-259)
RecvClose(c) ==
    /\ Receiving(c)
    /\ conns' = [conns EXCEPT ![c] =
                    [Take(@, [NoMessage EXCEPT !.type = "CLOSE"]) EXCEPT !.state = "returned"]]
    /\ UNCHANGED <<routes, started, nodeVars>>

\* a frame of any other type, such as BINARY (lines 254-255)
RecvOtherFrame(c) ==
    /\ Receiving(c)
    /\ conns' = [conns EXCEPT ![c] =
                    Raise(Take(@, [NoMessage EXCEPT !.type = "BINARY"]), "NotImplementedError")]
    /\ UNCHANGED <<routes, started, nodeVars>>

Init ==
    /\ routes = << >>
    /\ started = FALSE
    /\ conns = [c \in Conns |-> NewConn]
    /\ stack = << >>
    /\ ops = 0
    /\ result = NotRun

Next ==
    \/ \E registration \in Registrations : AddRoute(registration)
    \/ RunApp
    \/ \E c \in Conns, path \in Paths : RecvInit(c, path)
    \/ \E c \in Conns, path \in Paths, key \in ClientKeys, payload \in Payloads :
           RecvDomEvent(c, path, key, payload)
    \/ \E c \in Conns : RecvOtherType(c)
    \/ \E c \in Conns : RecvError(c)
    \/ \E c \in Conns : RecvClose(c)
    \/ \E c \in Conns : RecvOtherFrame(c)

Spec == Init /\ [][Next]_vars

(***************************************************************************)
(* Two connections served by one application: the routes are registered    *)
(* and the application runs; the frames of the two connections arrive in   *)
(* any order.                                                              *)
(***************************************************************************)
Pair == {"c1", "c2"}

\* router.add_route(r'^/$', index_init, index_render) and a second route
\* whose view binds an undecorated callback
ConcurrentRoutes ==
    add_route(add_route(<< >>, Pattern_root, "index_init", "index_render"),
              Pattern_any, "index_init", "draft_render")

\* the paths the two clients name: one for each route
PairPaths == {Path_root, Path_counter}

InitConcurrent ==
    /\ routes = ConcurrentRoutes
    /\ started = TRUE
    /\ conns = [c \in Pair |-> NewConn]
    /\ stack = << >>
    /\ ops = 0
    /\ result = NotRun

NextConcurrent ==
    \/ \E c \in Pair, path \in PairPaths : RecvInit(c, path)
    \/ \E c \in Pair, path \in PairPaths, key \in ClientKeys, payload \in Payloads :
           RecvDomEvent(c, path, key, payload)
    \/ \E c \in Pair : RecvOtherType(c)
    \/ \E c \in Pair : RecvError(c)
    \/ \E c \in Pair : RecvClose(c)
    \/ \E c \in Pair : RecvOtherFrame(c)

SpecConcurrent == InitConcurrent /\ [][NextConcurrent]_vars

(***************************************************************************)
(* What the claims speak of                                                *)
(***************************************************************************)
\* the connection took one more frame in this step
Stepped(c) == conns'[c].received = conns[c].received + 1

SteppedWith(c, type) == Stepped(c) /\ conns'[c].last.type = type

\* the application functions invoked in this step, in order
NewCalls(c) == SubSeq(conns'[c].calls, Len(conns[c].calls) + 1, Len(conns'[c].calls))

\* the number of updates pushed in this step
NewSent(c) == Len(conns'[c].sent) - Len(conns[c].sent)

Occurrences(seq, x) == Cardinality({i \in 1..Len(seq) : seq[i] = x})

IsWireNode(w) == "tag" \in DOMAIN w

\* the keys of the `on` maps of a wire tree, in document order
RECURSIVE WireKeySeq(_)
RECURSIVE WireKeySeqAll(_)
WireKeySeq(w) ==
    IF ~IsWireNode(w) THEN << >>
    ELSE (IF "on" \in DOMAIN w THEN [i \in 1..Len(w.on) |-> w.on[i][2]] ELSE << >>)
         \o WireKeySeqAll(w.children)

WireKeySeqAll(ws) ==
    IF ws = << >> THEN << >> ELSE WireKeySeq(Head(ws)) \o WireKeySeqAll(Tail(ws))

WireKeys(w) == {WireKeySeq(w)[i] : i \in 1..Len(WireKeySeq(w))}

LastSent(conn) == conn.sent[Len(conn.sent)]

\* the key of the message resolves, before the step, to a callback that is
\* (wrapped = TRUE) or is not (wrapped = FALSE) wrapped by the decorator
ResolvesTo(c, wrapped) ==
    /\ SteppedWith(c, "dom-event")
    /\ conns[c].has_events
    /\ DictHas(conns[c].events, conns'[c].last.key)
    /\ DictGet(conns[c].events, conns'[c].last.key).beyond = wrapped

\* C1: a dom-event whose key resolves to a handler wrapped by the decorator,
\* processed without an exception, runs the handler once, pushes exactly one
\* update for that message, and leaves the table of that render in place.
C1_WrappedPushesOnce ==
    [][\A c \in Conns :
          (ResolvesTo(c, TRUE) /\ conns'[c].state = "open") =>
              /\ Occurrences(NewCalls(c),
                             Invocation(DictGet(conns[c].events, conns'[c].last.key).name, 0)) = 1
              /\ NewSent(c) = 1
              /\ DictKeys(conns'[c].events) = WireKeys(LastSent(conns'[c]))]_vars

\* C2: a dom-event whose key resolves to a callback not wrapped by the
\* decorator invokes the callback, renders nothing, keeps the event table
\* and pushes no update.
C2_PlainPushesNothing ==
    [][\A c \in Conns :
          (ResolvesTo(c, FALSE) /\ conns'[c].state = "open") =>
              /\ NewCalls(c) =
                    <<Invocation(DictGet(conns[c].events, conns'[c].last.key).name, 0)>>
              /\ NewSent(c) = 0
              /\ conns'[c].events = conns[c].events]_vars

\* the keys of every tree pushed before the most recent one
SupersededKeys(conn) ==
    UNION {WireKeys(conn.sent[i]) : i \in 1..(Len(conn.sent) - 1)}

\* a key minted by an earlier render and not taken from the most recent one
Stale(conn, key) ==
    /\ conn.sent # << >>
    /\ key \in SupersededKeys(conn)
    /\ key \notin WireKeys(LastSent(conn))

\* C3: a dom-event carrying a key minted by an earlier render and not taken
\* from the most recent render ends in an error and invokes no callback.
C3_StaleKeyRejected ==
    [][\A c \in Conns :
          (SteppedWith(c, "dom-event") /\ Stale(conns[c], conns'[c].last.key)) =>
              /\ conns'[c].state = "raised"
              /\ conns'[c].exc = "KeyError"
              /\ NewCalls(c) = << >>]_vars

\* a stale key was sent and rejected
C3_Witness ==
    \E c \in Conns :
        /\ conns[c].last.type = "dom-event"
        /\ Stale(conns[c], conns[c].last.key)
        /\ conns[c].exc = "KeyError"

\* C4: a dom-event whose key is absent from the current event table is an
\* error on that connection; no callback is invoked, no render runs, no
\* update is pushed and the event table is unchanged.
C4_UnknownKeyIsError ==
    [][\A c \in Conns :
          (/\ SteppedWith(c, "dom-event")
           /\ conns[c].has_events
           /\ ~DictHas(conns[c].events, conns'[c].last.key)) =>
              /\ conns'[c].state = "raised"
              /\ conns'[c].exc = "KeyError"
              /\ NewCalls(c) = << >>
              /\ NewSent(c) = 0
              /\ conns'[c].events = conns[c].events]_vars

\* a key outside a non-empty current table was sent and rejected
C4_Witness ==
    \E c \in Conns :
        /\ conns[c].last.type = "dom-event"
        /\ conns[c].has_events
        /\ conns[c].events # EmptyDict
        /\ ~DictHas(conns[c].events, conns[c].last.key)
        /\ conns[c].exc = "KeyError"

\* the routes whose pattern matches the path, by registration index
Matching(path) == {i \in 1..Len(routes) : Match(routes[i].regex, path)}

FirstMatching(path) == CHOOSE i \in Matching(path) : \A j \in Matching(path) : i <= j

\* what the router is to invoke for an init of the path
InitCallsFor(path) ==
    IF Matching(path) = {} THEN << >>
    ELSE <<Invocation(routes[FirstMatching(path)].init, FirstMatching(path)),
           Invocation(routes[FirstMatching(path)].render, FirstMatching(path))>>

\* C5: an init message that is processed without an exception runs the
\* matched route's init handler and render, pushes exactly one update, and
\* leaves an event table holding exactly the keys of the tree just pushed.
C5_InitRendersAndReplaces ==
    [][\A c \in Conns :
          (SteppedWith(c, "init") /\ conns'[c].state = "open") =>
              /\ NewCalls(c) = InitCallsFor(conns'[c].last.path)
              /\ NewSent(c) = 1
              /\ conns'[c].has_events
              /\ DictKeys(conns'[c].events) = WireKeys(LastSent(conns'[c]))
              /\ Len(conns'[c].events) = Len(WireKeySeq(LastSent(conns'[c])))]_vars

\* a second init replaced a table with a table of other keys
C5_Witness ==
    \E c \in Conns :
        /\ conns[c].last.type = "init"
        /\ conns[c].state = "open"
        /\ Len(conns[c].sent) = 2
        /\ WireKeys(conns[c].sent[1]) # {}
        /\ WireKeys(conns[c].sent[1]) # DictKeys(conns[c].events)

InitHandlers == {routes[i].init : i \in 1..Len(routes)}

\* C6: for an init event the matched route's init handler is invoked before
\* its render handler; for any other event no init handler is invoked, and
\* the router invokes render only.
C6_InitBeforeRenderOnlyOnInit ==
    [][\A c \in Conns :
          /\ (SteppedWith(c, "init") /\ Matching(conns'[c].last.path) # {}) =>
                /\ Len(NewCalls(c)) = 2
                /\ NewCalls(c)[1].fn = routes[NewCalls(c)[1].route].init
                /\ NewCalls(c)[2].fn = routes[NewCalls(c)[2].route].render
                /\ NewCalls(c)[1].route = NewCalls(c)[2].route
          /\ (Stepped(c) /\ conns'[c].last.type # "init") =>
                \A i \in 1..Len(NewCalls(c)) :
                    NewCalls(c)[i].route # 0 =>
                        /\ NewCalls(c)[i].fn \notin InitHandlers
                        /\ NewCalls(c)[i].fn = routes[NewCalls(c)[i].route].render]_vars

\* a dom-event went through the router of a path that was initialised before
C6_Witness ==
    \E c \in Conns :
        /\ conns[c].last.type = "dom-event"
        /\ conns[c].state = "open"
        /\ Len(conns[c].calls) >= 4
        /\ conns[c].calls[Len(conns[c].calls)].route # 0

\* C7: the router uses the route of the smallest registration index whose
\* pattern matches the path, and no handler of any other route is invoked.
C7_FirstMatchOnly ==
    [][\A c \in Conns :
          Stepped(c) =>
              \A i \in 1..Len(NewCalls(c)) :
                  NewCalls(c)[i].route # 0 =>
                      /\ Matching(conns'[c].last.path) # {}
                      /\ NewCalls(c)[i].route = FirstMatching(conns'[c].last.path)]_vars

\* two different routes match the path of a message that was rendered
C7_Witness ==
    \E c \in Conns :
        /\ conns[c].last.type = "init"
        /\ conns[c].state = "open"
        /\ Len(routes) = 2
        /\ routes[1] # routes[2]
        /\ Matching(conns[c].last.path) = {1, 2}
        /\ conns[c].calls # << >>

\* {"tag": "h1", "attributes": {}, "children": ["No route found"]}
NotFoundWire ==
    [tag |-> "h1", attributes |-> EmptyDict, children |-> <<PyStr("No route found")>>]

\* C8: when no route matches the path, the router raises nothing and invokes
\* no handler; an init for that path pushes the not-found view and leaves
\* the session with an empty event table.
C8_NoRouteGivesNotFound ==
    [][\A c \in Conns :
          (Stepped(c) /\ conns'[c].last.type = "init"
                      /\ Matching(conns'[c].last.path) = {}) =>
              /\ conns'[c].state = "open"
              /\ NewCalls(c) = << >>
              /\ conns'[c].sent = Append(conns[c].sent, NotFoundWire)
              /\ conns'[c].has_events
              /\ conns'[c].events = EmptyDict]_vars

\* an init for an unmatched path came after an init that left a table
C8_Witness ==
    \E c \in Conns :
        /\ conns[c].last.type = "init"
        /\ routes # << >>
        /\ Matching(conns[c].last.path) = {}
        /\ Len(conns[c].sent) = 2
        /\ WireKeys(conns[c].sent[1]) # {}

(***************************************************************************)
(* serialize: what the claims speak of                                     *)
(***************************************************************************)
\* an attribute name that starts with on_
IsEventName(name) ==
    /\ Len(name) >= 3
    /\ name[1] = "o"
    /\ name[2] = "n"
    /\ name[3] = "_"

\* the name with the prefix removed
EventNameOf(name) == [i \in 1..(Len(name) - 3) |-> name[i + 3]]

EventAttributes(node) ==
    {i \in 1..Len(node.attributes) : IsEventName(node.attributes[i][1])}

PlainAttributes(node) ==
    {i \in 1..Len(node.attributes) : ~IsEventName(node.attributes[i][1])}

\* the number of event-bound attributes of a tree
RECURSIVE EventAttributeCount(_)
RECURSIVE EventAttributeCountAll(_)
EventAttributeCount(node) ==
    IF node.kind # "Node" THEN 0
    ELSE Cardinality(EventAttributes(node)) + EventAttributeCountAll(node.children)

EventAttributeCountAll(nodes) ==
    IF nodes = << >> THEN 0
    ELSE EventAttributeCount(Head(nodes)) + EventAttributeCountAll(Tail(nodes))

\* node by node: the `on` map has one entry per event-bound attribute, under
\* the event name, and the table maps its key to the callback bound there
RECURSIVE BindingsOK(_, _, _)
BindingsOK(node, wire, events) ==
    IF node.kind # "Node" THEN TRUE
    ELSE /\ IF EventAttributes(node) = {}
            THEN "on" \notin DOMAIN wire
            ELSE /\ "on" \in DOMAIN wire
                 /\ Len(wire.on) = Cardinality(EventAttributes(node))
                 /\ \A i \in EventAttributes(node) :
                      LET event == EventNameOf(node.attributes[i][1])
                      IN  /\ DictHas(wire.on, event)
                          /\ DictHas(events, DictGet(wire.on, event))
                          /\ DictGet(events, DictGet(wire.on, event)) = node.attributes[i][2]
         /\ Len(wire.children) = Len(node.children)
         /\ \A j \in 1..Len(node.children) :
              BindingsOK(node.children[j], wire.children[j], events)

Serialized == result.done /\ ~result.raised

\* C9: a serialize call that returns, for a tree with k event-bound
\* attributes, yields a table of exactly k entries with distinct keys; every
\* key is in exactly one `on` map, under the event name without the prefix,
\* and the table maps it to the callback bound there; for k = 0 the table is
\* empty and no node has an `on` field.
C9_TableMatchesBindings ==
    Serialized =>
        LET k == EventAttributeCount(stack[1])
        IN  /\ Len(result.events) = k
            /\ Cardinality(DictKeys(result.events)) = k
            /\ Len(WireKeySeq(result.html)) = k
            /\ WireKeys(result.html) = DictKeys(result.events)
            /\ BindingsOK(stack[1], result.html, result.events)

\* a tree with event-bound attributes on a parent and on its child
C9_Witness ==
    /\ Serialized
    /\ Len(result.events) >= 2
    /\ "on" \in DOMAIN result.html
    /\ Len(result.html.on) = 1

\* the name an attribute takes in the wire form
WireName(name) ==
    IF name = ClassUpper THEN ClassLower
    ELSE IF name = ForUpper THEN ForLower
    ELSE name

\* the attributes of the node that end up under the wire name w
Sources(node, w) == {i \in PlainAttributes(node) : WireName(node.attributes[i][1]) = w}

\* every plain attribute is in the wire form under its wire name, unchanged
EveryAttributeKept(node, wire) ==
    /\ \A key \in DictKeys(wire.attributes) : ~IsEventName(key)
    /\ ClassUpper \notin DictKeys(wire.attributes)
    /\ ForUpper \notin DictKeys(wire.attributes)
    /\ \A i \in PlainAttributes(node) :
         /\ DictHas(wire.attributes, WireName(node.attributes[i][1]))
         /\ DictGet(wire.attributes, WireName(node.attributes[i][1])) = node.attributes[i][2]

\* the wire form holds the wire names of the plain attributes, each with the
\* value of the last attribute of the node that takes that name
LastAttributeKept(node, wire) ==
    /\ \A key \in DictKeys(wire.attributes) : ~IsEventName(key)
    /\ DictKeys(wire.attributes) =
           {WireName(node.attributes[i][1]) : i \in PlainAttributes(node)}
    /\ \A w \in DictKeys(wire.attributes) :
         \E i \in Sources(node, w) :
             /\ \A j \in Sources(node, w) : j <= i
             /\ DictGet(wire.attributes, w) = node.attributes[i][2]

\* node by node: the attributes as stated, and primitive children unchanged
RECURSIVE ChildrenOK(_, _, _)
ChildrenOK(node, wire, amended) ==
    IF node.kind # "Node" THEN wire = node
    ELSE /\ IF amended THEN LastAttributeKept(node, wire)
            ELSE EveryAttributeKept(node, wire)
         /\ Len(wire.children) = Len(node.children)
         /\ \A j \in 1..Len(node.children) :
              ChildrenOK(node.children[j], wire.children[j], amended)

\* C10 as claimed: for every Node the wire attributes hold no on_ key, hold
\* class / for in place of Class / For with the same values and every other
\* plain attribute under its own key unchanged; primitive children pass
\* through unchanged.
C10_EveryAttributeKept ==
    Serialized => ChildrenOK(stack[1], result.html, FALSE)

\* C10 as amended: the same, except that of several attributes taking one
\* wire name (Class and class, For and for) the wire form holds one entry,
\* with the value of the one that comes last in the Node's attributes.
C10_LastAttributeKept ==
    Serialized => ChildrenOK(stack[1], result.html, TRUE)

\* a Node carrying Class, class and For, with a primitive child
C10_Witness ==
    /\ Serialized
    /\ DictHas(stack[1].attributes, ClassUpper)
    /\ DictHas(stack[1].attributes, ClassLower)
    /\ DictHas(stack[1].attributes, ForUpper)
    /\ stack[1].children # << >>

(***************************************************************************)
(* The dispatch loop: frames that end it, failures and isolation           *)
(***************************************************************************)
\* C11: a text message whose type is neither init nor dom-event makes the
\* loop raise; no handler is invoked, no update is pushed, and the
\* connection processes no message afterwards.
C11_OtherTypeIsFatal ==
    [][\A c \in DOMAIN conns :
          /\ SteppedWith(c, "other") =>
                /\ conns'[c].state = "raised"
                /\ NewCalls(c) = << >>
                /\ NewSent(c) = 0
                /\ conns'[c].events = conns[c].events
          /\ conns[c].state = "raised" => conns'[c] = conns[c]]_vars

\* a connection that had a view pushed was ended by a message of another type
C11_Witness ==
    \E c \in DOMAIN conns :
        /\ conns[c].last.type = "other"
        /\ conns[c].state = "raised"
        /\ conns[c].sent # << >>
        /\ conns[c].events # EmptyDict

Resolved(c) == DictGet(conns[c].events, conns'[c].last.key)

\* the step is the dispatch of a dom-event with this payload to a callback
\* of the table, and the application function behind the callback raises
HandlerRaises(c, payload) ==
    /\ SteppedWith(c, "dom-event")
    /\ conns[c].has_events
    /\ DictHas(conns[c].events, conns'[c].last.key)
    /\ CallHandler(Resolved(c).name, conns[c].request, payload).raised
    /\ RecvDomEvent(c, conns'[c].last.path, conns'[c].last.key, payload)

\* C13: when the application function invoked for a dom-event raises,
\* decorated or not, its exception leaves the dispatch loop, no update is
\* pushed for that dom-event, no render runs, and the event table keeps the
\* value it had before the message.
C13_HandlerExceptionPushesNothing ==
    [][\A c \in DOMAIN conns, payload \in Payloads :
          HandlerRaises(c, payload) =>
              /\ conns'[c].state = "raised"
              /\ conns'[c].exc =
                    CallHandler(Resolved(c).name, conns[c].request, payload).exc
              /\ NewCalls(c) = <<Invocation(Resolved(c).name, 0)>>
              /\ NewSent(c) = 0
              /\ conns'[c].has_events
              /\ conns'[c].events = conns[c].events]_vars

\* the connection was left by the exception of an application function that
\* a callback of its table, decorated (wrapped) or not, stands for
RaisedInHandler(conn, wrapped) ==
    /\ conn.last.type = "dom-event"
    /\ conn.state = "raised"
    /\ conn.has_events
    /\ DictHas(conn.events, conn.last.key)
    /\ DictGet(conn.events, conn.last.key).beyond = wrapped
    /\ conn.calls[Len(conn.calls)].route = 0

\* a decorated handler raised on a connection that had its view pushed
C13_Witness ==
    \E c \in DOMAIN conns :
        /\ RaisedInHandler(conns[c], TRUE)
        /\ Len(conns[c].sent) = 1

IsPrefix(a, b) == Len(a) <= Len(b) /\ SubSeq(b, 1, Len(a)) = a

\* what the router renders for the connection's path from the request state
\* the step leaves
ViewAfter(c) ==
    RouterCall(routes, Event("dom-event", conns'[c].last.path, EmptyDict),
               conns'[c].request).html

\* the update pushed last in this step is the wire form of that view
PushedViewAfter(c) ==
    LET keys == WireKeySeq(LastSent(conns'[c]))
    IN  /\ Len(keys) = CountEvents(ViewAfter(c))
        /\ serialize(ViewAfter(c), keys).html = LastSent(conns'[c])

\* C14: a connection's frames are taken one at a time and the work for a
\* frame (handler, render, serialize, push) is done in the step that takes
\* it: updates are only ever added after those already pushed, each init or
\* dom-event processed without exception has its update pushed before the
\* next frame is taken, and the update pushed last shows the state that
\* frame left.
C14_OneAtATimeInOrder ==
    [][\A c \in DOMAIN conns :
          /\ IsPrefix(conns[c].sent, conns'[c].sent)
          /\ IsPrefix(conns[c].calls, conns'[c].calls)
          /\ conns'[c].received \in {conns[c].received, conns[c].received + 1}
          /\ ~Stepped(c) => conns'[c] = conns[c]
          /\ (Stepped(c) /\ conns'[c].last.type \in {"init", "dom-event"}
                         /\ conns'[c].state = "open") => NewSent(c) >= 1
          /\ NewSent(c) >= 1 => PushedViewAfter(c)]_vars

\* both connections were served, one of them with three updates of which
\* the last differs from the first
C14_Witness ==
    \E c, d \in DOMAIN conns :
        /\ c # d
        /\ Len(conns[c].sent) >= 3
        /\ conns[c].sent[1] # LastSent(conns[c])
        /\ conns[d].received >= 1

(***************************************************************************)
(* The key generator and the capacity error                                *)
(***************************************************************************)
\* the uuid4 calls the serialize of `node` makes when uuid4 returns `uuids`
UuidCalls(node, uuids) == Len(uuids) - Len(to_dict(node, EmptyDict, uuids).uuids)

\* the keys it has bound to callbacks when it returns or raises
KeysBound(node, uuids) == Len(to_dict(node, EmptyDict, uuids).events)

\* C15: a serialize that ends in the capacity error has, for the binding it
\* failed on, drawn as many keys as the retry bound (255), every one of them
\* already in the table; one collision alone does not fail the render.
C15_RetriesBeforeCapacityError ==
    (result.done /\ result.raised) =>
        \A uuids \in [1..CountEvents(stack[1]) -> Keys] :
            serialize(stack[1], uuids).raised =>
                UuidCalls(stack[1], uuids) - KeysBound(stack[1], uuids) >= 255

\* C16: a render whose serialize ends in the capacity error pushes nothing
\* and leaves websocket.events as it was: after such a step the table is
\* still a complete one (the one before the step, or that of the tree the
\* decorator pushed in the step), and every tree pushed carries a key for
\* each event-bound attribute of its view.
C16_CapacityErrorAbortsRender ==
    [][\A c \in DOMAIN conns :
          /\ (Stepped(c) /\ conns'[c].exc = "BeyondException") =>
                /\ conns'[c].state = "raised"
                /\ IF NewSent(c) = 0
                   THEN /\ conns'[c].events = conns[c].events
                        /\ conns'[c].has_events = conns[c].has_events
                   ELSE /\ NewSent(c) = 1
                        /\ ResolvesTo(c, TRUE)
                        /\ DictKeys(conns'[c].events) = WireKeys(LastSent(conns'[c]))
                        /\ Len(conns'[c].events) = Len(WireKeySeq(LastSent(conns'[c])))
          /\ NewSent(c) >= 1 => PushedViewAfter(c)]_vars

\* an init ended in the capacity error on a connection that keeps the table
\* and the view of an earlier render
C16_Witness ==
    \E c \in DOMAIN conns :
        /\ conns[c].last.type = "init"
        /\ conns[c].exc = "BeyondException"
        /\ Len(conns[c].sent) = 1
        /\ Len(conns[c].events) = 2
        /\ DictKeys(conns[c].events) = WireKeys(LastSent(conns[c]))

\* C17: whenever a connection's loop waits for its next frame after having
\* pushed an update, websocket.events holds exactly the keys of the `on`
\* maps of the tree pushed last, one entry per key.
C17_TableIsThatOfLastPush ==
    \A c \in DOMAIN conns :
        (conns[c].state = "open" /\ conns[c].sent # << >>) =>
            /\ conns[c].has_events
            /\ DictKeys(conns[c].events) = WireKeys(LastSent(conns[c]))
            /\ Len(conns[c].events) = Len(WireKeySeq(LastSent(conns[c])))

\* a connection waits after a dom-event whose renders replaced the keys of
\* the first tree
C17_Witness ==
    \E c \in DOMAIN conns :
        /\ conns[c].state = "open"
        /\ conns[c].last.type = "dom-event"
        /\ Len(conns[c].sent) >= 2
        /\ conns[c].events # EmptyDict
        /\ WireKeys(conns[c].sent[1]) # DictKeys(conns[c].events)

\* C18: a connection has an empty event table from its start, so a
\* dom-event that is the first frame of a connection is a miss of that
\* table, like any unknown key: KeyError, no callback invoked, nothing
\* pushed.
C18_TableEmptyFromStart ==
    [][\A c \in DOMAIN conns :
          (SteppedWith(c, "dom-event") /\ conns[c].received = 0) =>
              /\ conns[c].has_events
              /\ conns[c].events = EmptyDict
              /\ conns'[c].state = "raised"
              /\ conns'[c].exc = "KeyError"
              /\ NewCalls(c) = << >>
              /\ NewSent(c) = 0]_vars

\* C19: a step that processes a frame of one connection, whatever the frame
\* and however it ends, leaves every other connection as it was (table,
\* request state, pushed updates, loop state), and the callback it invokes
\* is the one its own table holds for the key.
C19_ConnectionsIsolated ==
    [][\A c \in DOMAIN conns :
          Stepped(c) =>
              /\ \A d \in DOMAIN conns \ {c} : conns'[d] = conns[d]
              /\ \A i \in 1..Len(NewCalls(c)) :
                    NewCalls(c)[i].route = 0 =>
                        /\ conns[c].has_events
                        /\ DictHas(conns[c].events, conns'[c].last.key)
                        /\ NewCalls(c)[i].fn = Resolved(c).name]_vars

\* one connection was ended by an exception while the other, with another
\* table, had a dom-event dispatched and waits for its next frame
C19_Witness ==
    \E c, d \in DOMAIN conns :
        /\ c # d
        /\ conns[c].state = "raised"
        /\ conns[c].received >= 1
        /\ conns[d].state = "open"
        /\ conns[d].last.type = "dom-event"
        /\ conns[d].events # EmptyDict
        /\ conns[d].events # conns[c].events

(***************************************************************************)
(* Node: attribute writes and the order of children                        *)
(***************************************************************************)
\* the Node an operation on the top of the stack leaves there
NewTop == stack'[Len(stack)]

\* the parent after the Node built last was added to it
NewParent == stack'[Len(stack) - 1]

\* the attributes are those before, with every pair of kwargs written over
WrittenOver(old, new, kwargs) ==
    /\ DictKeys(new.attributes) =
           DictKeys(old.attributes) \cup {kwargs[i][1] : i \in 1..Len(kwargs)}
    /\ \A i \in 1..Len(kwargs) :
           DictGet(new.attributes, kwargs[i][1]) = kwargs[i][2]
    /\ \A key \in DictKeys(old.attributes) \ {kwargs[i][1] : i \in 1..Len(kwargs)} :
           DictGet(new.attributes, key) = DictGet(old.attributes, key)
    /\ new.children = old.children
    /\ new.tag = old.tag

\* the children are those before followed by `added`, nothing else changed
Added(old, new, added) ==
    /\ new.children = old.children \o added
    /\ new.attributes = old.attributes
    /\ new.tag = old.tag

\* what node[nodes] is to add
ItemsOf(nodes) == IF nodes.kind \in {"list", "tuple"} THEN nodes.items ELSE <<nodes>>

\* the wire tree has the Node's children, one for one and in the same order
RECURSIVE SameChildren(_, _)
SameChildren(node, wire) ==
    IF node.kind # "Node" THEN wire = node
    ELSE /\ wire.tag = node.tag
         /\ Len(wire.children) = Len(node.children)
         /\ \A j \in 1..Len(node.children) :
              SameChildren(node.children[j], wire.children[j])

\* C20: an attribute-setting call leaves each key it names with the value
\* just written and every other attribute as it was; append, extend and []
\* add their children after the existing ones, in the order given (a list
\* or tuple element by element, a primitive or a Node as one child); no
\* operation removes a child; serialize emits the children in that order.
C20_NodeKeepsWritesAndOrder ==
    [][/\ \A kwargs \in KwargsPool : DoCall(kwargs) => WrittenOver(Top, NewTop, kwargs)
       /\ \A child \in Primitives : DoAppend(child) => Added(Top, NewTop, <<child>>)
       /\ DoAppendNode => Added(stack[Len(stack) - 1], NewParent, <<Top>>)
       /\ \A nodes \in Lists : DoExtend(nodes) => Added(Top, NewTop, nodes.items)
       /\ \A nodes \in Primitives \cup Lists :
             DoGetItem(nodes) => Added(Top, NewTop, ItemsOf(nodes))
       /\ DoGetItemNode => Added(stack[Len(stack) - 1], NewParent, <<Top>>)
       /\ \A i \in 1..Len(stack) :
             i <= Len(stack') => IsPrefix(stack[i].children, stack'[i].children)
       /\ (DoSerialize /\ ~result'.raised) => SameChildren(stack[1], result'.html)]_vars

\* a serialized Node with an attribute, whose children are a Node followed
\* by the elements of a list
C20_Witness ==
    /\ Serialized
    /\ stack[1].attributes # EmptyDict
    /\ Len(stack[1].children) = 3
    /\ stack[1].children[1].kind = "Node"
    /\ stack[1].children[2] = PyStr("beyondjs")
    /\ stack[1].children[3] = PyInt("1")

====
